---- MODULE Spec2Model ----
(***************************************************************************)
(* Job lifecycle and queues of evaou/ai-scraper.                           *)
(*                                                                         *)
(* Two queue implementations live in the repository:                       *)
(*   - JobQueue   (app/services/queue.py): sorted set job_queue, set       *)
(*     processing_jobs, sorted set retry_queue, list dead_letter_queue,    *)
(*     the per-job key processing:<id> and the status key job_status:<id>. *)
(*   - RedisQueue (app/core/redis.py): sorted sets scraping_queue and      *)
(*     scraping_queue:processing; the one the API route and the            *)
(*     ScraperWorker use.                                                  *)
(* Both read and write the same Job rows (app/models/job.py).              *)
(*                                                                         *)
(* Job ids are UUID strings; a job id is modelled by its rank in the       *)
(* lexicographic order of the strings (Redis orders equal scores by        *)
(* member), so 1 < 2 means "sorts before".  Time is in seconds.            *)
(***************************************************************************)
EXTENDS Integers, Sequences, FiniteSets, TLC

\* ---- bounds of the model ------------------------------------------------
NumJobs == 2
NumWorkers == 2
MaxTicks == 2
MaxRetriesBound == 1
MaxEnqueues == 2
MaxCancels == 2
MaxCrudCalls == 2
MaxCacheCalls == 3
MaxRateCalls == 3        \* requests passing through check_rate_limit
MaxRedispatches == 1     \* RedisQueue.retry_job calls for jobs in progress
NumPromoters == 2        \* background tasks running process_retry_queue
MaxPromotions == 2       \* process_retry_queue calls

Jobs == 1..NumJobs
Workers == 1..NumWorkers
Promoters == 1..NumPromoters
NoJob == 0

\* inputs
PriorityChoices == {0, 1}
DelayChoices == {0, 1}
TickSteps == {1, 1000, 3600}
MaxProcessingTimes == {900, 3600}

\* ---- program constants --------------------------------------------------
PriorityWeight == 1000
ProcessingKeyTTL == 3600
MaxRetryDelay == 300

\* The retry fields of Settings as config.py declares them (lines 126-139).
\* JobQueue._schedule_retry reads settings.RETRY_DELAY and
\* settings.RETRY_BACKOFF; Settings declares neither, and a pydantic
\* BaseSettings raises AttributeError for a field it does not declare.
Settings == [max_retries |-> 3, backoff_base |-> 1, backoff_max |-> 30]

HasAttr(obj, name) == name \in DOMAIN obj

\* values of Job.error_message; NoMessage is None
NoMessage == "None"
CancelMessage == "Job cancelled by user"
NoDataMessage == "Scraping failed - no data extracted"
ExceptionMessage == "str(e)"

\* a NULL timestamp column
NoTime == 0

\* a request without selector, without options
NoSelector == "None"
NoOptions == "{}"

\* the URL of the requests of a run that does not vary it
DefaultUrl == "https://example.com"
OtherUrl == "https://example.org"
Urls == {DefaultUrl, OtherUrl}

\* settings.CACHE_TTL
CACHE_TTL == 3600

\* no url_cache:<hash> key
NoEntry == [hit |-> FALSE, at |-> NoTime, selector |-> NoSelector, options |-> NoOptions]

\* arguments of CacheService: options=None, custom_ttl=None
NoneOptions == "None"
NoTtl == 0

\* a result dict: its "content", and the values under the keys "cached_at",
\* "cache_ttl" and "cache_key_info" (NoTime, NoTtl, NoKeyInfo: no such key);
\* content is a string or a Python tuple
NoKeyInfo == [url |-> "", selector |-> "", options |-> ""]
ContentChoices == {[kind |-> "str", items |-> <<"a">>],
                   [kind |-> "tuple", items |-> <<"a", "b">>]}
ResultChoices ==
    {[content |-> c, cached_at |-> ca, cache_ttl |-> NoTtl, cache_key_info |-> NoKeyInfo] :
        c \in ContentChoices, ca \in {NoTime, 7}}
NoResult == [content |-> [kind |-> "none", items |-> <<>>], cached_at |-> NoTime,
             cache_ttl |-> NoTtl, cache_key_info |-> NoKeyInfo]
CacheSelectors == {NoSelector, "h1"}
CacheOptions == {NoneOptions, NoOptions}
CustomTtls == {NoTtl, 1000}

\* Job(...) as JobCRUD.create builds and commits it at time t: the defaults of
\* Job.__init__ and created_at = now()
NewJob(url, selector, options, priority, scheduled_at, max_retries, t) ==
    [exists |-> TRUE, status |-> "PENDING", retry_count |-> 0,
     max_retries |-> max_retries, priority |-> priority,
     error_message |-> NoMessage, started_at |-> NoTime, completed_at |-> NoTime,
     scheduled_at |-> scheduled_at, created_at |-> t,
     url |-> url, selector |-> selector, options |-> options]

VARIABLES
    settings,           \* the global Settings instance (get_settings())
    now,                \* datetime.utcnow().timestamp()
    ticks,              \* number of clock advances so far (bounded)
    db,                 \* Job rows: id -> [exists, status, retry_count, max_retries, priority,
                        \*                  error_message, started_at, completed_at,
                        \*                  scheduled_at, created_at, url, selector, options]
    job_queue,          \* sorted set "job_queue": member -> score
    processing_jobs,    \* set "processing_jobs"
    processing_key,     \* keys "processing:<id>": id -> time of SETEX (TTL 3600)
    retry_queue,        \* sorted set "retry_queue": member -> score
    dead_letter_queue,  \* list "dead_letter_queue", head first (LPUSH)
    job_status,         \* keys "job_status:<id>": id -> status string
    wpc,                \* JobQueue caller position: "idle", "read", "holding"
    wjob,               \* job id the caller read / was returned
    dispatched,         \* history: per job, dequeue returns not yet resolved
    enqueues,           \* history: number of enqueue_job calls so far
    admitted,           \* history: per job, priority of its first enqueue_job (or -1)
    failures,           \* history: per job, complete_job(success=False) calls
    reclaims,           \* history: per job, reclaims by cleanup_stale_jobs
    scraping_queue,     \* sorted set "scraping_queue": member -> priority
    scraping_processing,\* sorted set "scraping_queue:processing"
    results,            \* Result rows: job id -> number of rows for the job
    swpc,               \* ScraperWorker position: "idle", "popped", "got"
    swjob,              \* job id the ScraperWorker popped
    submitted,          \* history: job ids in the order submit_scrape_job created them
    url_cache,          \* keys "url_cache:<hash of url>": url -> the scrape the entry is from
    cancel_log,         \* history: number of cancel_job calls, job id and reply of the last
    crud_reply,         \* history: number of direct JobCRUD / Job calls, and the last one:
                        \* its name, its job id or limit, and what it returned
    scrape_cache,       \* keys "cache:url:<hash>": key -> JSON text, SETEX time and ttl
    store_log,          \* history: store_scrape_result calls, the arguments of the last
    cache_reply,        \* history: get_scrape_result calls, the last one and its return
    rate_limit,         \* keys "rate_limit:<identifier>:<minute>" and the history of the
                        \* rate_limit_check calls per identifier
    redispatches,       \* history: number of RedisQueue.retry_job calls made from outside
                        \* process_job
    promoter,           \* process_retry_queue calls in progress: position, the ids read
                        \* and not moved yet, current_time, moved_count
    promoted            \* history: process_retry_queue calls made, the sum of the counts
                        \* they returned, the retry_queue entries their ZREMs removed

vars == <<settings, now, ticks, db, job_queue, processing_jobs, processing_key,
          retry_queue, dead_letter_queue, job_status, wpc, wjob,
          dispatched, enqueues, admitted, failures, reclaims,
          scraping_queue, scraping_processing, results, swpc, swjob, submitted,
          url_cache, cancel_log, crud_reply, scrape_cache, store_log, cache_reply,
          rate_limit, redispatches, promoter, promoted>>

\* the state of the RedisQueue path (the Job rows are shared)
rqVars == <<scraping_queue, scraping_processing, results, swpc, swjob, submitted,
           url_cache, cancel_log>>

\* the state of the request dependencies and background tasks
sideVars == <<rate_limit, redispatches, promoter, promoted>>

\* the state of the services called directly
svcVars == <<crud_reply, scrape_cache, store_log, cache_reply, sideVars>>

\* the state of the JobQueue path (the Job rows are shared)
jqVars == <<settings, now, ticks, job_queue, processing_jobs, processing_key, retry_queue,
            dead_letter_queue, job_status, wpc, wjob, dispatched, enqueues,
            admitted, failures, reclaims>>

\* ---- Redis sorted sets --------------------------------------------------
EmptyZSet == [k \in {} |-> 0]

\* ZADD key {member: score}: inserts or overwrites the score
ZAdd(z, m, sc) == [k \in (DOMAIN z) \cup {m} |-> IF k = m THEN sc ELSE z[k]]

\* reply of ZADD: number of NEW members
ZAddReply(z, m) == IF m \in DOMAIN z THEN 0 ELSE 1

ZRem(z, m) == [k \in (DOMAIN z) \ {m} |-> z[k]]

ZRemReply(z, m) == IF m \in DOMAIN z THEN 1 ELSE 0

\* sorted-set order: by score, then by member
ZBefore(z, a, b) == z[a] < z[b] \/ (z[a] = z[b] /\ a < b)

\* ZRANGEBYSCORE key lo hi: the members in score range
ZRangeByScore(z, lo, hi) == {m \in DOMAIN z : lo <= z[m] /\ z[m] <= hi}

\* ZRANGEBYSCORE key lo hi LIMIT 0 1: the first member in range (or NoJob)
ZRangeByScoreFirst(z, lo, hi) ==
    LET r == ZRangeByScore(z, lo, hi)
    IN IF r = {} THEN NoJob
       ELSE CHOOSE m \in r : \A o \in r \ {m} : ZBefore(z, m, o)

\* GET processing:<id>: the key is gone once its TTL has run out
ProcessingStart(pk, j, t) ==
    IF j \in DOMAIN pk /\ t < pk[j] + ProcessingKeyTTL THEN pk[j] ELSE -1

\* ---- the queue state as one value ---------------------------------------
QState == [settings |-> settings, db |-> db, job_queue |-> job_queue, processing_jobs |-> processing_jobs,
           processing_key |-> processing_key, retry_queue |-> retry_queue,
           dead_letter_queue |-> dead_letter_queue, job_status |-> job_status]

SetQState(q) ==
    /\ db' = q.db
    /\ job_queue' = q.job_queue
    /\ processing_jobs' = q.processing_jobs
    /\ processing_key' = q.processing_key
    /\ retry_queue' = q.retry_queue
    /\ dead_letter_queue' = q.dead_letter_queue
    /\ job_status' = q.job_status

RECURSIVE Pow(_, _)
Pow(b, e) == IF e <= 0 THEN 1 ELSE b * Pow(b, e - 1)

Min(a, b) == IF a <= b THEN a ELSE b

\* JobQueue._should_retry_job
should_retry_job(q, j) ==
    q.db[j].exists /\ q.db[j].retry_count < q.db[j].max_retries

\* JobQueue._schedule_retry at time t.  The row is committed before the
\* settings are read; the AttributeError is caught by the method's own
\* except clause, so nothing after the commit happens.
schedule_retry(q, j, t) ==
    IF ~q.db[j].exists THEN q
    ELSE LET q1 == [q EXCEPT !.db[j].retry_count = @ + 1,
                             !.db[j].status = "RETRYING"]
             n == q1.db[j].retry_count
         IN IF ~(HasAttr(q.settings, "RETRY_DELAY") /\ HasAttr(q.settings, "RETRY_BACKOFF"))
            THEN q1
            ELSE LET delay == Min(q.settings.RETRY_DELAY * Pow(q.settings.RETRY_BACKOFF, n - 1),
                                  MaxRetryDelay)
                 IN [q1 EXCEPT !.retry_queue = ZAdd(@, j, t + delay),
                               !.job_status[j] = "retrying"]

\* where the database session of a complete_job call raises: nowhere, inside
\* _should_retry_job, or inside _schedule_retry
StoreFaults == {"none", "should_retry", "schedule_retry"}

\* JobQueue.complete_job with the database failing as fault says.
\* _should_retry_job catches the exception and answers False (lines 186-188);
\* _schedule_retry catches it and does nothing (lines 221-222).
complete_job_with(q, j, success, t, fault) ==
    LET q1 == [q EXCEPT !.processing_jobs = @ \ {j},
                        !.processing_key = [k \in (DOMAIN @) \ {j} |-> @[k]]]
    IN IF success
       THEN [q1 EXCEPT !.job_status[j] = "completed"]
       ELSE LET q2 == [q1 EXCEPT !.job_status[j] = "failed"]
            IN IF fault # "should_retry" /\ should_retry_job(q2, j)
               THEN IF fault = "schedule_retry" THEN q2 ELSE schedule_retry(q2, j, t)
               ELSE [q2 EXCEPT !.dead_letter_queue = <<j>> \o @]

\* JobQueue.complete_job
complete_job(q, j, success, t) == complete_job_with(q, j, success, t, "none")

\* the value JobQueue.complete_job returns: False only from its own except
\* clause (line 176), which no exception of the two helpers reaches, since
\* each helper catches its own
complete_job_returns(q, j, success, fault) == TRUE

\* is j reclaimed by cleanup_stale_jobs(max_processing_time = mpt) at time t
IsStale(q, j, t, mpt) ==
    /\ j \in q.processing_jobs
    /\ LET start == ProcessingStart(q.processing_key, j, t)
       IN start = -1 \/ t - start > mpt

\* one iteration of the loop of JobQueue.cleanup_stale_jobs
cleanup_job(q, j, t, mpt) ==
    IF ~IsStale(q, j, t, mpt) THEN q
    ELSE LET start == ProcessingStart(q.processing_key, j, t)
             q1 == [q EXCEPT !.processing_jobs = @ \ {j}]
             q2 == IF start = -1 THEN q1
                   ELSE [q1 EXCEPT !.processing_key = [k \in (DOMAIN @) \ {j} |-> @[k]]]
         IN schedule_retry(q2, j, t)

RECURSIVE cleanup_all(_, _, _, _)
cleanup_all(q, S, t, mpt) ==
    IF S = {} THEN q
    ELSE LET j == CHOOSE x \in S : \A y \in S : x <= y
         IN cleanup_all(cleanup_job(q, j, t, mpt), S \ {j}, t, mpt)

\* ---- initial state ------------------------------------------------------
\* the clock reads t
InitClock(t) ==
    /\ now = t
    /\ ticks = 0

\* JobQueue on an empty Redis
InitJobQueueKeys ==
    /\ settings = Settings
    /\ job_queue = EmptyZSet
    /\ processing_jobs = {}
    /\ processing_key = EmptyZSet
    /\ retry_queue = EmptyZSet
    /\ dead_letter_queue = <<>>
    /\ job_status = [j \in Jobs |-> "none"]
    /\ wpc = [w \in Workers |-> "idle"]
    /\ wjob = [w \in Workers |-> NoJob]
    /\ dispatched = [j \in Jobs |-> 0]
    /\ enqueues = 0
    /\ admitted = [j \in Jobs |-> -1]
    /\ failures = [j \in Jobs |-> 0]
    /\ reclaims = [j \in Jobs |-> 0]

\* generate_url_cache_key: the hash of the JSON text of url, selector or ""
\* and options or {} with sorted keys, told apart by what was hashed
generate_url_cache_key(url, selector, options) ==
    <<url,
      IF selector = NoSelector THEN "" ELSE selector,
      IF options = NoneOptions THEN NoOptions ELSE options>>

CacheKeys ==
    {generate_url_cache_key(u, sel, o) : u \in Urls, sel \in CacheSelectors, o \in CacheOptions}

\* no key "cache:url:<hash>"
NoCached == [set |-> FALSE, value |-> NoResult, at |-> NoTime, ttl |-> NoTtl]

\* CacheService on an empty Redis, not called yet
InitCacheService ==
    /\ scrape_cache = [k \in CacheKeys |-> NoCached]
    /\ store_log = [calls |-> 0, url |-> "", selector |-> "", options |-> "",
                    result |-> NoResult, custom_ttl |-> NoTtl, at |-> NoTime]
    /\ cache_reply = [calls |-> 0, url |-> "", selector |-> "", options |-> "",
                      hit |-> FALSE, value |-> NoResult]

\* the identifiers check_rate_limit derives from one client: "<client>:minute"
\* and "<client>:hour"
RateIdentifiers == {"minute", "hour"}

\* no "rate_limit:*" key, rate_limit_check not called yet
InitRateLimit ==
    rate_limit = [keys |-> <<>>, log |-> [id \in RateIdentifiers |-> <<>>], calls |-> 0]

\* a process_retry_queue call that is not running
IdlePromoter == [pc |-> "idle", retry_jobs |-> <<>>, current_time |-> NoTime, moved_count |-> 0]

\* no process_retry_queue call made yet
InitPromoters ==
    /\ promoter = [p \in Promoters |-> IdlePromoter]
    /\ promoted = [calls |-> 0, returned |-> 0, removed |-> 0]

\* idle ScraperWorkers, no request made yet
InitWorkers ==
    /\ scraping_processing = EmptyZSet
    /\ results = [j \in Jobs |-> 0]
    /\ swpc = [w \in Workers |-> "idle"]
    /\ swjob = [w \in Workers |-> NoJob]
    /\ submitted = <<>>
    /\ url_cache = [u \in Urls |-> NoEntry]
    /\ cancel_log = [calls |-> 0, job_id |-> NoJob, reply |-> 0]
    /\ crud_reply = [calls |-> 0, op |-> "none", arg |-> 0, flag |-> FALSE, rows |-> <<>>]
    /\ InitCacheService
    /\ InitRateLimit
    /\ redispatches = 0
    /\ InitPromoters

InitJobQueue ==
    /\ InitClock(1)
    /\ InitJobQueueKeys

InitQueues ==
    /\ InitJobQueue
    /\ InitWorkers
    /\ scraping_queue = EmptyZSet

\* JobQueue is handed ids of Job rows that exist, fresh from Job.__init__
Init ==
    /\ InitQueues
    /\ \E mr \in 0..MaxRetriesBound :
          db = [j \in Jobs |-> NewJob(DefaultUrl, NoSelector, NoOptions, 0, NoTime, mr, now)]

NoRow == [exists |-> FALSE, status |-> "NONE", retry_count |-> 0,
          max_retries |-> 0, priority |-> 0,
          error_message |-> NoMessage, started_at |-> NoTime, completed_at |-> NoTime,
          scheduled_at |-> NoTime, created_at |-> NoTime,
          url |-> DefaultUrl, selector |-> NoSelector, options |-> NoOptions]

\* the API and the ScraperWorker start with an empty jobs table
InitDeployed ==
    /\ InitQueues
    /\ db = [j \in Jobs |-> NoRow]

\* ---- actions ------------------------------------------------------------
\* the clock advances; expired processing:<id> keys disappear
Tick ==
    /\ ticks < MaxTicks
    /\ \E d \in TickSteps : now' = now + d
    /\ ticks' = ticks + 1
    /\ processing_key' = [k \in {x \in DOMAIN processing_key :
                                    now' < processing_key[x] + ProcessingKeyTTL}
                            |-> processing_key[k]]
    /\ UNCHANGED <<settings, db, job_queue, processing_jobs, retry_queue,
                   dead_letter_queue, job_status, wpc, wjob, dispatched, enqueues,
                   admitted, failures, reclaims>>
    /\ UNCHANGED rqVars
    /\ UNCHANGED svcVars

\* JobQueue.enqueue_job(job_id, priority, delay_seconds) at time t: the queue
\* state it leaves
enqueue_job(q, j, priority, delay_seconds, t) ==
    LET score == (t + delay_seconds) + priority * PriorityWeight
        result == ZAddReply(q.job_queue, j)
        q1 == [q EXCEPT !.job_queue = ZAdd(@, j, score)]
    IN IF result = 1 THEN [q1 EXCEPT !.job_status[j] = "queued"] ELSE q1

\* the value JobQueue.enqueue_job returns: the reply of its ZADD on job_queue
enqueue_job_returns(q, j) == ZAddReply(q.job_queue, j) = 1

\* a caller invokes JobQueue.enqueue_job(job_id, priority, delay_seconds)
EnqueueJob(j, priority, delay_seconds) ==
    /\ enqueues < MaxEnqueues
    /\ LET q == enqueue_job(QState, j, priority, delay_seconds, now)
       IN /\ job_queue' = q.job_queue
          /\ job_status' = q.job_status
    /\ enqueues' = enqueues + 1
    /\ admitted' = IF admitted[j] = -1 THEN [admitted EXCEPT ![j] = priority]
                   ELSE admitted
    /\ UNCHANGED <<settings, now, ticks, db, processing_jobs, processing_key, retry_queue,
                   dead_letter_queue, wpc, wjob, dispatched, failures, reclaims>>
    /\ UNCHANGED rqVars
    /\ UNCHANGED svcVars

\* JobQueue.dequeue_job, first half: the ZRANGEBYSCORE read.  With nothing
\* ready the call sleeps and returns None, which changes no state.
DequeueRead(w) ==
    /\ wpc[w] = "idle"
    /\ LET job_id == ZRangeByScoreFirst(job_queue, 0, now)
       IN /\ job_id # NoJob
          /\ wjob' = [wjob EXCEPT ![w] = job_id]
    /\ wpc' = [wpc EXCEPT ![w] = "read"]
    /\ UNCHANGED <<settings, now, ticks, db, job_queue, processing_jobs, processing_key,
                   retry_queue, dead_letter_queue, job_status, dispatched,
                   enqueues, admitted, failures, reclaims>>
    /\ UNCHANGED rqVars
    /\ UNCHANGED svcVars

\* a dequeue_job that returned the job whatever its ZREM replied
DequeueReturnsUnchecked(zremReply) == zremReply \in {0, 1}

\* does dequeue_job return the job it read, given the reply of its ZREM
DequeueReturns(zremReply) == zremReply = 1

\* JobQueue.dequeue_job, second half: the MULTI/EXEC pipeline and the return
DequeuePipeline(w) ==
    /\ wpc[w] = "read"
    /\ LET job_id == wjob[w]
           got == DequeueReturns(ZRemReply(job_queue, job_id))
       IN /\ job_queue' = ZRem(job_queue, job_id)
          /\ processing_jobs' = processing_jobs \cup {job_id}
          /\ processing_key' = ZAdd(processing_key, job_id, now)
          /\ job_status' = IF got THEN [job_status EXCEPT ![job_id] = "processing"]
                           ELSE job_status
          /\ wpc' = [wpc EXCEPT ![w] = IF got THEN "holding" ELSE "idle"]
          /\ wjob' = [wjob EXCEPT ![w] = IF got THEN job_id ELSE NoJob]
          /\ dispatched' = IF got THEN [dispatched EXCEPT ![job_id] = @ + 1]
                           ELSE dispatched
    /\ UNCHANGED <<settings, now, ticks, db, retry_queue, dead_letter_queue, enqueues,
                   admitted, failures, reclaims>>
    /\ UNCHANGED rqVars
    /\ UNCHANGED svcVars

\* the caller that was returned a job reports it: JobQueue.complete_job
CompleteJob(w, success) ==
    /\ wpc[w] = "holding"
    /\ LET j == wjob[w]
       IN /\ SetQState(complete_job(QState, j, success, now))
          /\ dispatched' = [dispatched EXCEPT ![j] = 0]
          /\ failures' = IF success THEN failures ELSE [failures EXCEPT ![j] = @ + 1]
    /\ wpc' = [wpc EXCEPT ![w] = "idle"]
    /\ wjob' = [wjob EXCEPT ![w] = NoJob]
    /\ UNCHANGED <<settings, now, ticks, enqueues, admitted, reclaims>>
    /\ UNCHANGED rqVars
    /\ UNCHANGED svcVars

\* JobQueue.complete_job(success=False) while the database is unavailable
CompleteJobStoreDown(w, fault) ==
    /\ wpc[w] = "holding"
    /\ fault # "none"
    /\ LET j == wjob[w]
       IN /\ SetQState(complete_job_with(QState, j, FALSE, now, fault))
          /\ dispatched' = [dispatched EXCEPT ![j] = 0]
          /\ failures' = [failures EXCEPT ![j] = @ + 1]
    /\ wpc' = [wpc EXCEPT ![w] = "idle"]
    /\ wjob' = [wjob EXCEPT ![w] = NoJob]
    /\ UNCHANGED <<settings, now, ticks, enqueues, admitted, reclaims>>
    /\ UNCHANGED rqVars
    /\ UNCHANGED svcVars

\* the caller dies after dequeue_job returned and never calls complete_job
Crash(w) ==
    /\ wpc[w] = "holding"
    /\ wpc' = [wpc EXCEPT ![w] = "idle"]
    /\ wjob' = [wjob EXCEPT ![w] = NoJob]
    /\ UNCHANGED <<settings, now, ticks, db, job_queue, processing_jobs, processing_key,
                   retry_queue, dead_letter_queue, job_status, dispatched,
                   enqueues, admitted, failures, reclaims>>
    /\ UNCHANGED rqVars
    /\ UNCHANGED svcVars

\* JobQueue.cleanup_stale_jobs(max_processing_time)
CleanupStaleJobs(mpt) ==
    /\ \E j \in processing_jobs : IsStale(QState, j, now, mpt)
    /\ SetQState(cleanup_all(QState, processing_jobs, now, mpt))
    /\ dispatched' = [j \in Jobs |-> IF IsStale(QState, j, now, mpt) THEN 0
                                     ELSE dispatched[j]]
    /\ reclaims' = [j \in Jobs |-> IF IsStale(QState, j, now, mpt) THEN reclaims[j] + 1
                                   ELSE reclaims[j]]
    /\ UNCHANGED <<settings, now, ticks, wpc, wjob, enqueues, admitted, failures>>
    /\ UNCHANGED rqVars
    /\ UNCHANGED svcVars

\* JobQueue.process_retry_queue
ProcessRetryQueue ==
    /\ LET retry_jobs == ZRangeByScore(retry_queue, 0, now)
       IN /\ retry_queue' = [k \in (DOMAIN retry_queue) \ retry_jobs |-> retry_queue[k]]
          /\ job_queue' = [k \in (DOMAIN job_queue) \cup retry_jobs |->
                              IF k \in retry_jobs THEN now ELSE job_queue[k]]
          /\ job_status' = [j \in Jobs |-> IF j \in retry_jobs THEN "queued"
                                           ELSE job_status[j]]
    /\ UNCHANGED <<settings, now, ticks, db, processing_jobs, processing_key, dead_letter_queue,
                   wpc, wjob, dispatched, enqueues, admitted, failures, reclaims>>
    /\ UNCHANGED rqVars
    /\ UNCHANGED svcVars

\* ---- the RedisQueue path: API route and ScraperWorker -------------------
DefaultMaxRetries == 3

\* BZPOPMAX: the member with the highest score, the greatest member among equals
BZPopMax(z) ==
    IF DOMAIN z = {} THEN NoJob
    ELSE CHOOSE m \in DOMAIN z : \A o \in (DOMAIN z) \ {m} : ZBefore(z, o, m)

\* a can_retry that looked at the counters only
can_retry_any_status(row) == row.retry_count < row.max_retries

\* Job.can_retry
can_retry(row) == row.status = "FAILED" /\ row.retry_count < row.max_retries

\* JobCRUD.update_status; an argument left at NoMessage / NoTime is not written
update_status(d, j, status, error_message, started_at, completed_at) ==
    IF ~d[j].exists THEN d
    ELSE [d EXCEPT ![j].status = status,
                   ![j].error_message = IF error_message # NoMessage THEN error_message ELSE @,
                   ![j].started_at = IF started_at # NoTime THEN started_at ELSE @,
                   ![j].completed_at = IF completed_at # NoTime THEN completed_at ELSE @]

\* JobCRUD.increment_retry_count
increment_retry_count(d, j) ==
    IF ~d[j].exists THEN d
    ELSE [d EXCEPT ![j].retry_count = @ + 1, ![j].status = "PENDING",
                   ![j].error_message = NoMessage, ![j].started_at = NoTime,
                   ![j].completed_at = NoTime]

\* submit_scrape_job: JobCRUD.create with a fresh uuid4, then RedisQueue.enqueue.
\* redisOk = FALSE: the ZADD raises, enqueue returns False and the route
\* answers 500; the row created before stays.
SubmitScrapeRequest(j, url, selector, options, priority, scheduled_at, redisOk) ==
    /\ ~db[j].exists
    /\ db' = [db EXCEPT ![j] = NewJob(url, selector, options, priority, scheduled_at,
                                      DefaultMaxRetries, now)]
    /\ submitted' = Append(submitted, j)
    /\ scraping_queue' = IF redisOk THEN ZAdd(scraping_queue, j, priority)
                         ELSE scraping_queue
    /\ UNCHANGED <<scraping_processing, results, swpc, swjob, cancel_log>>
    /\ UNCHANGED url_cache
    /\ UNCHANGED jqVars
    /\ UNCHANGED svcVars

\* a request that gives the url and the priority only
SubmitScrapeJob(j, priority, redisOk) ==
    SubmitScrapeRequest(j, DefaultUrl, NoSelector, NoOptions, priority, NoTime, redisOk)

\* RedisQueue.dequeue, first command: BZPOPMAX scraping_queue.  On an empty
\* queue the call times out and returns None, which changes no state.
DequeuePop(w) ==
    /\ swpc[w] = "idle"
    /\ LET job_id == BZPopMax(scraping_queue)
       IN /\ job_id # NoJob
          /\ scraping_queue' = ZRem(scraping_queue, job_id)
          /\ swjob' = [swjob EXCEPT ![w] = job_id]
    /\ swpc' = [swpc EXCEPT ![w] = "popped"]
    /\ UNCHANGED <<db, scraping_processing, results, submitted, cancel_log>>
    /\ UNCHANGED url_cache
    /\ UNCHANGED jqVars
    /\ UNCHANGED svcVars

\* RedisQueue.dequeue, second command: ZADD scraping_queue:processing, return
DequeueMove(w) ==
    /\ swpc[w] = "popped"
    /\ scraping_processing' = ZAdd(scraping_processing, swjob[w], db[swjob[w]].priority)
    /\ swpc' = [swpc EXCEPT ![w] = "got"]
    /\ UNCHANGED <<db, scraping_queue, results, swjob, submitted, cancel_log>>
    /\ UNCHANGED url_cache
    /\ UNCHANGED jqVars
    /\ UNCHANGED svcVars

\* get_cached_url_result(url) at time t: the entry under url_cache:<hash of url>
\* while its SETEX time to live lasts
get_cached_url_result(c, url, t) ==
    IF c[url].hit /\ t < c[url].at + CACHE_TTL THEN c[url] ELSE NoEntry

\* cache_url_result(job.url, result_data) at time t; result_data is what the
\* scrape of this url with this selector and these options extracted
cache_url_result(c, url, selector, options, t) ==
    [c EXCEPT ![url] = [hit |-> TRUE, at |-> t, selector |-> selector, options |-> options]]

\* the except-handler of ScraperWorker.process_job (lines 211-234) on the
\* rows d: the rows and the two sorted sets it leaves.  handlerOk = FALSE: the
\* database calls of the handler raise as well (lines 232-234).
process_job_handler(d, j, handlerOk, t) ==
    IF ~handlerOk
    THEN [db |-> d, queue |-> scraping_queue,
          processing |-> ZRem(scraping_processing, j)]
    ELSE IF d[j].exists /\ can_retry(d[j])
    THEN [db |-> increment_retry_count(d, j),
          queue |-> ZAdd(scraping_queue, j, d[j].priority),
          processing |-> ZRem(scraping_processing, j)]
    ELSE [db |-> update_status(d, j, "FAILED", ExceptionMessage, NoTime, t),
          queue |-> scraping_queue,
          processing |-> ZRem(scraping_processing, j)]

\* ScraperWorker.process_job(job_id), lines 139-160: read the row, return if
\* it is missing, COMPLETED or CANCELLED, else mark it RUNNING.
\* raises = TRUE: a database call raises and the except-handler runs.
ProcessStart(w, raises, handlerOk) ==
    /\ swpc[w] = "got"
    /\ LET j == swjob[w]
           skip == ~db[j].exists \/ db[j].status \in {"COMPLETED", "CANCELLED"}
       IN IF raises
          THEN LET h == process_job_handler(db, j, handlerOk, now)
               IN /\ db' = h.db
                  /\ scraping_queue' = h.queue
                  /\ scraping_processing' = h.processing
                  /\ swpc' = [swpc EXCEPT ![w] = "idle"]
                  /\ swjob' = [swjob EXCEPT ![w] = NoJob]
          ELSE /\ handlerOk
               /\ IF skip
                  THEN /\ scraping_processing' = ZRem(scraping_processing, j)
                       /\ swpc' = [swpc EXCEPT ![w] = "idle"]
                       /\ swjob' = [swjob EXCEPT ![w] = NoJob]
                       /\ UNCHANGED <<db, scraping_queue>>
                  ELSE /\ db' = update_status(db, j, "RUNNING", NoMessage, now, NoTime)
                       /\ swpc' = [swpc EXCEPT ![w] = "running"]
                       /\ UNCHANGED <<scraping_queue, scraping_processing, swjob>>
    /\ UNCHANGED <<results, submitted, cancel_log>>
    /\ UNCHANGED url_cache
    /\ UNCHANGED jqVars
    /\ UNCHANGED svcVars

ProcessOutcomes == {"cached", "scraped", "nodata", "raise"}

\* ScraperWorker.process_job(job_id), lines 162-234: the cache lookup and the
\* scrape are over; outcome says how.  The row is not read again before the
\* result is saved and the status written.
ProcessFinish(w, outcome, handlerOk) ==
    /\ swpc[w] = "running"
    /\ LET j == swjob[w]
       IN IF outcome = "cached"
          THEN /\ handlerOk
               /\ get_cached_url_result(url_cache, db[j].url, now).hit
               /\ results' = [results EXCEPT ![j] = @ + 1]
               /\ db' = update_status(db, j, "COMPLETED", NoMessage, NoTime, now)
               /\ scraping_processing' = ZRem(scraping_processing, j)
               /\ UNCHANGED <<scraping_queue, url_cache>>
          ELSE IF outcome = "scraped"
          THEN /\ handlerOk
               /\ results' = [results EXCEPT ![j] = @ + 1]
               /\ url_cache' = cache_url_result(url_cache, db[j].url, db[j].selector,
                                                db[j].options, now)
               /\ db' = update_status(db, j, "COMPLETED", NoMessage, NoTime, now)
               /\ scraping_processing' = ZRem(scraping_processing, j)
               /\ UNCHANGED scraping_queue
          ELSE IF outcome = "nodata"
          THEN /\ handlerOk
               /\ db' = update_status(db, j, "FAILED", NoDataMessage, NoTime, now)
               /\ scraping_processing' = ZRem(scraping_processing, j)
               /\ UNCHANGED <<scraping_queue, results, url_cache>>
          ELSE LET h == process_job_handler(db, j, handlerOk, now)
               IN /\ db' = h.db
                  /\ scraping_queue' = h.queue
                  /\ scraping_processing' = h.processing
                  /\ UNCHANGED <<results, url_cache>>
    /\ swpc' = [swpc EXCEPT ![w] = "idle"]
    /\ swjob' = [swjob EXCEPT ![w] = NoJob]
    /\ UNCHANGED <<submitted, cancel_log>>
    /\ UNCHANGED jqVars
    /\ UNCHANGED svcVars

\* the worker process dies inside dequeue or process_job and is restarted
CrashScraperWorker(w) ==
    /\ swpc[w] \in {"popped", "got", "running"}
    /\ swpc' = [swpc EXCEPT ![w] = "idle"]
    /\ swjob' = [swjob EXCEPT ![w] = NoJob]
    /\ UNCHANGED <<db, scraping_queue, scraping_processing, results, submitted, cancel_log>>
    /\ UNCHANGED url_cache
    /\ UNCHANGED jqVars
    /\ UNCHANGED svcVars

\* a cancel_job that let a COMPLETED job be cancelled as well
CancellableOrCompleted(status) == status \in {"PENDING", "RUNNING", "COMPLETED"}

\* cancel_job, line 334: the statuses a job can be cancelled in
Cancellable(status) == status \in {"PENDING", "RUNNING"}

\* the HTTP status cancel_job answers for a row
cancel_job_reply(row) ==
    IF ~row.exists THEN 404
    ELSE IF ~Cancellable(row.status) THEN 400
    ELSE 204

\* DELETE /scrape/{job_id}: cancel_job
CancelJob(j) ==
    /\ cancel_log.calls < MaxCancels
    /\ cancel_log' = [calls |-> cancel_log.calls + 1, job_id |-> j,
                      reply |-> cancel_job_reply(db[j])]
    /\ db' = IF cancel_job_reply(db[j]) = 204
             THEN update_status(db, j, "CANCELLED", CancelMessage, NoTime, NoTime)
             ELSE db
    /\ UNCHANGED <<scraping_queue, scraping_processing, results, swpc, swjob, submitted>>
    /\ UNCHANGED url_cache
    /\ UNCHANGED jqVars
    /\ UNCHANGED svcVars

NextDeployed ==
    \/ \E j \in Jobs, p \in PriorityChoices, ok \in BOOLEAN : SubmitScrapeJob(j, p, ok)
    \/ \E w \in Workers : DequeuePop(w)
    \/ \E w \in Workers : DequeueMove(w)
    \/ \E w \in Workers, r \in BOOLEAN, h \in BOOLEAN : ProcessStart(w, r, h)
    \/ \E w \in Workers, o \in ProcessOutcomes, h \in BOOLEAN : ProcessFinish(w, o, h)
    \/ \E w \in Workers : CrashScraperWorker(w)
    \/ \E j \in Jobs : CancelJob(j)

\* submit_scrape_job, cancel_job, RedisQueue and ScraperWorker
SpecDeployed == InitDeployed /\ [][NextDeployed]_vars

\* enqueue_job as the submit path would call it: once, for a job not admitted before
EnqueueNewJob(j, priority, delay_seconds) ==
    /\ admitted[j] = -1
    /\ EnqueueJob(j, priority, delay_seconds)

Next ==
    \/ Tick
    \/ \E j \in Jobs, p \in PriorityChoices, d \in DelayChoices : EnqueueJob(j, p, d)
    \/ \E w \in Workers : DequeueRead(w)
    \/ \E w \in Workers : DequeuePipeline(w)
    \/ \E w \in Workers, s \in BOOLEAN : CompleteJob(w, s)
    \/ \E w \in Workers : Crash(w)
    \/ \E mpt \in MaxProcessingTimes : CleanupStaleJobs(mpt)
    \/ ProcessRetryQueue

\* JobQueue with callers that may enqueue any job id at any time
Spec == Init /\ [][Next]_vars

NextOnce ==
    \/ Tick
    \/ \E j \in Jobs, p \in PriorityChoices, d \in DelayChoices : EnqueueNewJob(j, p, d)
    \/ \E w \in Workers : DequeueRead(w)
    \/ \E w \in Workers : DequeuePipeline(w)
    \/ \E w \in Workers, s \in BOOLEAN : CompleteJob(w, s)
    \/ \E w \in Workers : Crash(w)
    \/ \E mpt \in MaxProcessingTimes : CleanupStaleJobs(mpt)
    \/ ProcessRetryQueue

\* JobQueue with every job id enqueued at most once
SpecOnce == Init /\ [][NextOnce]_vars

NextStore ==
    \/ NextOnce
    \/ \E w \in Workers, f \in StoreFaults \ {"none"} : CompleteJobStoreDown(w, f)

\* JobQueue with every job id enqueued at most once and a database that may fail
SpecStore == Init /\ [][NextStore]_vars

\* ---- Job and JobCRUD called on stored rows --------------------------------
\* JobStatus
JobStatuses == {"PENDING", "RUNNING", "COMPLETED", "FAILED", "CANCELLED", "RETRYING"}

\* Job.is_terminal
is_terminal(row) == row.status \in {"COMPLETED", "FAILED", "CANCELLED"}

\* rows as the jobs table can hold them: any status, a retry_count up to one
\* past max_retries (increment_retry_count has no upper limit)
StoredRows ==
    {[NewJob(DefaultUrl, NoSelector, NoOptions, 0, NoTime, mr, 1)
          EXCEPT !.status = s, !.retry_count = rc] :
        s \in JobStatuses, rc \in 0..(MaxRetriesBound + 1), mr \in 0..MaxRetriesBound}

\* one stored row, and any set of job ids waiting in scraping_queue: ids of
\* the stored row and ids whose row is missing
InitRows ==
    /\ InitJobQueue
    /\ InitWorkers
    /\ \E j \in Jobs, r \in StoredRows : db = [k \in Jobs |-> IF k = j THEN r ELSE NoRow]
    /\ \E q \in SUBSET Jobs : scraping_queue = [j \in q |-> 0]

\* job.can_retry read on a loaded row
CanRetry(j) ==
    /\ crud_reply.calls < MaxCrudCalls
    /\ db[j].exists
    /\ crud_reply' = [calls |-> crud_reply.calls + 1, op |-> "can_retry", arg |-> j,
                      flag |-> can_retry(db[j]), rows |-> <<>>]
    /\ UNCHANGED db
    /\ UNCHANGED <<scrape_cache, store_log, cache_reply>>
    /\ UNCHANGED sideVars
    /\ UNCHANGED rqVars
    /\ UNCHANGED jqVars

\* JobCRUD.increment_retry_count(db, job_id); flag: a Job was returned, not None
IncrementRetryCount(j) ==
    /\ crud_reply.calls < MaxCrudCalls
    /\ db' = increment_retry_count(db, j)
    /\ crud_reply' = [calls |-> crud_reply.calls + 1, op |-> "increment_retry_count",
                      arg |-> j, flag |-> db[j].exists, rows |-> <<>>]
    /\ UNCHANGED <<scrape_cache, store_log, cache_reply>>
    /\ UNCHANGED sideVars
    /\ UNCHANGED rqVars
    /\ UNCHANGED jqVars

NextRows ==
    \/ \E j \in Jobs : CanRetry(j)
    \/ \E j \in Jobs : IncrementRetryCount(j)
    \/ \E w \in Workers : DequeuePop(w)
    \/ \E w \in Workers : DequeueMove(w)
    \/ \E w \in Workers : ProcessStart(w, FALSE, TRUE)
    \/ \E w \in Workers, o \in ProcessOutcomes : ProcessFinish(w, o, TRUE)

\* Job, JobCRUD and the ScraperWorker on rows in any stored state; no call fails
SpecRows == InitRows /\ [][NextRows]_vars

\* ---- requests with a selector, options and a schedule ----------------------
\* ScrapeRequest.selector, .options and .scheduled_at as a client may send them
SelectorChoices == {NoSelector, "h1"}
OptionsChoices == {NoOptions, "{screenshot: true}"}
ScheduleChoices == {NoTime, 1001}

\* the ScraperWorker when no call fails
WorkerSteps ==
    \/ \E w \in Workers : DequeuePop(w)
    \/ \E w \in Workers : DequeueMove(w)
    \/ \E w \in Workers : ProcessStart(w, FALSE, TRUE)
    \/ \E w \in Workers, o \in ProcessOutcomes : ProcessFinish(w, o, TRUE)

NextScheduled ==
    \/ Tick
    \/ \E j \in Jobs, p \in PriorityChoices, sa \in ScheduleChoices :
          SubmitScrapeRequest(j, DefaultUrl, NoSelector, NoOptions, p, sa, TRUE)
    \/ WorkerSteps

\* requests with and without scheduled_at, RedisQueue and the ScraperWorker
\* while time passes
SpecScheduled == InitDeployed /\ [][NextScheduled]_vars

NextRequests ==
    \/ Tick
    \/ \E j \in Jobs, url \in Urls, sel \in SelectorChoices, opt \in OptionsChoices :
          SubmitScrapeRequest(j, url, sel, opt, 0, NoTime, TRUE)
    \/ WorkerSteps

\* requests for the same and for different urls, selectors and options,
\* RedisQueue and the ScraperWorker with its url cache while time passes
SpecRequests == InitDeployed /\ [][NextRequests]_vars

\* ---- JobCRUD.get_pending_jobs ---------------------------------------------
\* the limit argument
LimitChoices == 1..NumJobs

\* WHERE status = PENDING AND (scheduled_at IS NULL OR scheduled_at <= now)
pending_where(d, t) ==
    {j \in Jobs : /\ d[j].exists
                  /\ d[j].status = "PENDING"
                  /\ (d[j].scheduled_at = NoTime \/ d[j].scheduled_at <= t)}

\* an ORDER BY priority, created_at, both ascending
order_by_priority_ascending(d, a, b) ==
    \/ d[a].priority < d[b].priority
    \/ (d[a].priority = d[b].priority /\ d[a].created_at <= d[b].created_at)

\* ORDER BY desc(priority), created_at: row a may stand before row b
order_by(d, a, b) ==
    \/ d[a].priority > d[b].priority
    \/ (d[a].priority = d[b].priority /\ d[a].created_at <= d[b].created_at)

\* JobCRUD.get_pending_jobs(db, limit) at time t: every list the SELECT may
\* return; rows equal in priority and created_at come in any order
get_pending_jobs(d, t, limit) ==
    LET selected == pending_where(d, t)
        n == Cardinality(selected)
        ordered == {o \in [1..n -> selected] :
                       /\ \A i, k \in 1..n : i # k => o[i] # o[k]
                       /\ \A i \in 1..(n - 1) : order_by(d, o[i], o[i + 1])}
    IN {[i \in 1..Min(limit, n) |-> o[i]] : o \in ordered}

GetPendingJobs(limit) ==
    /\ crud_reply.calls < MaxCrudCalls
    /\ \E r \in get_pending_jobs(db, now, limit) :
          crud_reply' = [calls |-> crud_reply.calls + 1, op |-> "get_pending_jobs",
                         arg |-> limit, flag |-> TRUE, rows |-> r]
    /\ UNCHANGED db
    /\ UNCHANGED <<scrape_cache, store_log, cache_reply>>
    /\ UNCHANGED sideVars
    /\ UNCHANGED rqVars
    /\ UNCHANGED jqVars

\* values of scheduled_at: none, the time of the first call, a later time
PendingSchedules == {NoTime, 3, 1001}

\* rows get_pending_jobs selects from: waiting or taken by a worker, created
\* at one time or another before the first call
PendingRows ==
    {[NewJob(DefaultUrl, NoSelector, NoOptions, p, sa, DefaultMaxRetries, ca)
          EXCEPT !.status = st] :
        p \in PriorityChoices, sa \in PendingSchedules, ca \in {1, 2},
        st \in {"PENDING", "RUNNING"}}

InitPending ==
    /\ InitClock(3)
    /\ InitJobQueueKeys
    /\ InitWorkers
    /\ scraping_queue = EmptyZSet
    /\ db \in [Jobs -> PendingRows]

NextPending ==
    \/ Tick
    \/ \E limit \in LimitChoices : GetPendingJobs(limit)

\* get_pending_jobs called on any jobs table, at once and after time has passed
SpecPending == InitPending /\ [][NextPending]_vars

\* ---- CacheService --------------------------------------------------------
\* json.dumps: a tuple is written as a JSON array
json_dumps(d) ==
    [d EXCEPT !.content = [@ EXCEPT !.kind = IF @ = "tuple" THEN "list" ELSE @]]

\* json.loads of a text json_dumps wrote
json_loads(text) == text

\* cache_get(key) at time t: GET, nil once the SETEX time to live is over
cache_get(c, key, t) ==
    IF c[key].set /\ (c[key].ttl = NoTtl \/ t < c[key].at + c[key].ttl)
    THEN c[key] ELSE NoCached

\* cache_set(key, value, ttl) at time t: SETEX if ttl, else SET
cache_set(c, key, value, ttl, t) ==
    [c EXCEPT ![key] = [set |-> TRUE, value |-> value, at |-> t, ttl |-> ttl]]

\* get_cached_scrape_result(url, selector, options) at time t
get_cached_scrape_result(c, url, selector, options, t) ==
    LET cached == cache_get(c, generate_url_cache_key(url, selector, options), t)
    IN IF cached.set THEN [hit |-> TRUE, value |-> json_loads(cached.value)]
       ELSE [hit |-> FALSE, value |-> NoResult]

\* set_cached_scrape_result(url, result, selector, options) at time t
set_cached_scrape_result(c, url, result, selector, options, t) ==
    cache_set(c, generate_url_cache_key(url, selector, options), json_dumps(result),
              CACHE_TTL, t)

\* the enriched_result of store_scrape_result
enriched_result(url, result, selector, options, custom_ttl, t) ==
    [result EXCEPT !.cached_at = t,
                   !.cache_ttl = IF custom_ttl # NoTtl THEN custom_ttl ELSE CACHE_TTL,
                   !.cache_key_info =
                       [url |-> url, selector |-> selector,
                        options |-> IF options = NoneOptions THEN NoOptions ELSE options]]

\* CacheService.store_scrape_result(url, result, selector, options, custom_ttl)
StoreScrapeResult(url, result, selector, options, custom_ttl) ==
    /\ store_log.calls + cache_reply.calls < MaxCacheCalls
    /\ scrape_cache' = set_cached_scrape_result(
                           scrape_cache, url,
                           enriched_result(url, result, selector, options, custom_ttl, now),
                           selector, options, now)
    /\ store_log' = [calls |-> store_log.calls + 1, url |-> url, selector |-> selector,
                     options |-> options, result |-> result, custom_ttl |-> custom_ttl,
                     at |-> now]
    /\ UNCHANGED <<db, crud_reply, cache_reply>>
    /\ UNCHANGED sideVars
    /\ UNCHANGED rqVars
    /\ UNCHANGED jqVars

\* CacheService.get_scrape_result(url, selector, options)
GetScrapeResult(url, selector, options) ==
    /\ store_log.calls + cache_reply.calls < MaxCacheCalls
    /\ LET cached_result == get_cached_scrape_result(scrape_cache, url, selector, options, now)
       IN cache_reply' = [calls |-> cache_reply.calls + 1, url |-> url,
                          selector |-> selector, options |-> options,
                          hit |-> cached_result.hit, value |-> cached_result.value]
    /\ UNCHANGED <<db, crud_reply, scrape_cache, store_log>>
    /\ UNCHANGED sideVars
    /\ UNCHANGED rqVars
    /\ UNCHANGED jqVars

NextCacheService ==
    \/ Tick
    \/ \E result \in ResultChoices, sel \in CacheSelectors, o \in CacheOptions,
          ttl \in CustomTtls : StoreScrapeResult(DefaultUrl, result, sel, o, ttl)
    \/ \E sel \in CacheSelectors, o \in CacheOptions : GetScrapeResult(DefaultUrl, sel, o)

\* CacheService storing and looking up results while time passes
SpecCacheService == InitDeployed /\ [][NextCacheService]_vars

\* ---- state predicates used by the properties ----------------------------
InReady(j) == j \in DOMAIN job_queue
InFlight(j) == j \in processing_jobs
InRetry(j) == j \in DOMAIN retry_queue
InNoSet(j) == ~InReady(j) /\ ~InFlight(j) /\ ~InRetry(j)

\* Job.is_terminal of the stored row
StoredTerminal(j) == db[j].status \in {"COMPLETED", "FAILED", "CANCELLED"}

\* some caller has read j or was returned j and has not finished with it
Handled(j) == \E w \in Workers : wpc[w] # "idle" /\ wjob[w] = j

\* ---- C1 -----------------------------------------------------------------
\* C1: no job id is returned by dequeue_job to a second caller while an
\* earlier return of it has not been resolved by complete_job or
\* cleanup_stale_jobs (every job enqueued once, dequeue calls interleaved).
C1_NoDoubleDispatch == \A j \in Jobs : dispatched[j] <= 1

\* two callers read the same ready job, one of them was returned it
C1_Witness ==
    \E j \in Jobs, w1, w2 \in Workers :
        /\ w1 # w2
        /\ wpc[w1] = "holding" /\ wjob[w1] = j
        /\ wpc[w2] = "read" /\ wjob[w2] = j
        /\ dispatched[j] = 1

\* ---- C2 -----------------------------------------------------------------
\* C2: every job id is in at most one of job_queue, processing_jobs and
\* retry_queue, in every reachable state.
C2_SetsDisjoint ==
    \A j \in Jobs :
        /\ ~(InReady(j) /\ InFlight(j))
        /\ ~(InReady(j) /\ InRetry(j))
        /\ ~(InFlight(j) /\ InRetry(j))

\* ---- C11 ----------------------------------------------------------------
\* C11: enqueue_job for a job id that is already in job_queue, processing_jobs
\* or retry_queue returns False and leaves the three sets, and the score the
\* id has in job_queue, unchanged.
C11_EnqueueIdempotent ==
    \A j \in Jobs, p \in PriorityChoices, d \in DelayChoices :
        ~InNoSet(j) =>
            LET q == enqueue_job(QState, j, p, d, now)
            IN /\ ~enqueue_job_returns(QState, j)
               /\ q.job_queue = job_queue
               /\ q.processing_jobs = processing_jobs
               /\ q.retry_queue = retry_queue

\* ---- C12 ----------------------------------------------------------------
\* C12: a second complete_job(J, ...) with the same arguments leaves
\* job_queue, processing_jobs, retry_queue, dead_letter_queue and J's
\* retry_count as the first call left them.
C12_CompleteIdempotent ==
    \A w \in Workers, success \in BOOLEAN :
        wpc[w] = "holding" =>
            LET j == wjob[w]
                first == complete_job(QState, j, success, now)
                second == complete_job(first, j, success, now)
            IN /\ second.job_queue = first.job_queue
               /\ second.processing_jobs = first.processing_jobs
               /\ second.retry_queue = first.retry_queue
               /\ second.dead_letter_queue = first.dead_letter_queue
               /\ second.db[j].retry_count = first.db[j].retry_count

\* ---- C19 ----------------------------------------------------------------
\* C19: when the database fails inside complete_job(J, success=False),
\* complete_job returns False, J is not pushed to dead_letter_queue, and J is
\* not left outside every queue set with a stored status that is not terminal.
C19_StoreFailurePropagates ==
    \A w \in Workers, fault \in StoreFaults \ {"none"} :
        wpc[w] = "holding" =>
            LET j == wjob[w]
                c == complete_job_with(QState, j, FALSE, now, fault)
            IN /\ ~complete_job_returns(QState, j, FALSE, fault)
               /\ c.dead_letter_queue = dead_letter_queue
               /\ ~(/\ j \notin DOMAIN c.job_queue
                    /\ j \notin c.processing_jobs
                    /\ j \notin DOMAIN c.retry_queue
                    /\ c.db[j].status \notin {"COMPLETED", "FAILED", "CANCELLED"})

\* ---- C4 -----------------------------------------------------------------
\* C4: every admitted job eventually has a terminal stored status, also when
\* its caller crashed.  Stated on finite runs: an admitted job that is in none
\* of the sets and in no caller's hands (nothing will act on it again when
\* every job is enqueued once) has a terminal stored status.
C4_EventuallyTerminal ==
    \A j \in Jobs :
        (admitted[j] # -1 /\ InNoSet(j) /\ ~Handled(j)) => StoredTerminal(j)

\* ---- C5 -----------------------------------------------------------------
\* C5: for a job whose every attempt ends in complete_job(success=False), the
\* k-th failure (k <= max_retries) leaves it RETRYING with retry_count = k and
\* waiting in retry_queue to be re-offered; the (max_retries+1)-th leaves it
\* FAILED with retry_count = max_retries, in no set, once in dead_letter_queue.
C5_RetryExhaustion ==
    [][\A j \in Jobs :
          (failures'[j] = failures[j] + 1 /\ reclaims[j] = 0) =>
              LET k == failures'[j]
                  N == db[j].max_retries
              IN /\ (k <= N) => /\ db'[j].status = "RETRYING"
                                /\ db'[j].retry_count = k
                                /\ j \in DOMAIN retry_queue'
                 /\ (k = N + 1) => /\ db'[j].status = "FAILED"
                                   /\ db'[j].retry_count = N
                                   /\ j \notin DOMAIN job_queue'
                                   /\ j \notin processing_jobs'
                                   /\ j \notin DOMAIN retry_queue'
                                   /\ Cardinality({i \in 1..Len(dead_letter_queue') :
                                                     dead_letter_queue'[i] = j}) = 1]_vars

\* ---- C6 -----------------------------------------------------------------
\* C6: every job has retry_count <= max_retries in every reachable state.
C6_RetryCountBounded == \A j \in Jobs : db[j].retry_count <= db[j].max_retries

\* ---- C7 -----------------------------------------------------------------
\* C7: a job whose caller never completes it is removed from processing_jobs
\* by cleanup_stale_jobs with retry_count raised by exactly 1 and is queued
\* for re-dispatch (in retry_queue, from where process_retry_queue promotes it).
C7_StaleReclaimed ==
    [][\A j \in Jobs :
          (reclaims'[j] = reclaims[j] + 1) =>
              /\ j \notin processing_jobs'
              /\ db'[j].retry_count = db[j].retry_count + 1
              /\ (j \in DOMAIN retry_queue' \/ j \in DOMAIN job_queue')]_vars

\* ---- C8 -----------------------------------------------------------------
\* C8: cleanup_stale_jobs leaves a stale job's set memberships, its
\* dead-letter entries, its stored status and its retry_count as
\* complete_job(J, success=False) would from the same state.
C8_ReclaimLikeFailure ==
    [][\A j \in Jobs :
          (reclaims'[j] = reclaims[j] + 1) =>
              LET c == complete_job(QState, j, FALSE, now)
              IN /\ (j \in DOMAIN job_queue') = (j \in DOMAIN c.job_queue)
                 /\ (j \in processing_jobs') = (j \in c.processing_jobs)
                 /\ (j \in DOMAIN retry_queue') = (j \in DOMAIN c.retry_queue)
                 /\ Len(dead_letter_queue') = Len(c.dead_letter_queue)
                 /\ db'[j].status = c.db[j].status
                 /\ db'[j].retry_count = c.db[j].retry_count]_vars

\* ---- C9 -----------------------------------------------------------------
\* C9: of two admitted jobs that are both ready, dequeue_job never picks the
\* one with the lower priority number while the one with the higher priority
\* number is still waiting (higher number = more urgent).
C9_PriorityOrder ==
    [][\A w \in Workers :
          (wpc[w] = "idle" /\ wpc'[w] = "read") =>
              \A a \in DOMAIN job_queue :
                  (job_queue[a] <= now) => admitted[a] <= admitted[wjob'[w]]]_vars

\* ---- C3 -----------------------------------------------------------------
\* a ScraperWorker has popped j and has not finished process_job
BusyWith(j) == \E w \in Workers : swpc[w] # "idle" /\ swjob[w] = j

\* C3: on the RedisQueue path, a stored job that is PENDING, RUNNING or
\* RETRYING and that no worker is busy with is in scraping_queue or in
\* scraping_queue:processing.
C3_NoJobLost ==
    \A j \in Jobs :
        (db[j].exists /\ db[j].status \in {"PENDING", "RUNNING", "RETRYING"} /\ ~BusyWith(j))
            => (j \in DOMAIN scraping_queue \/ j \in DOMAIN scraping_processing)

\* ---- C10 ----------------------------------------------------------------
\* position of j in the order of the submit_scrape_job calls
SubmitPos(j) == CHOOSE i \in 1..Len(submitted) : submitted[i] = j

\* C10: RedisQueue.dequeue never pops a job while a job of equal priority
\* that was submitted earlier is still waiting in scraping_queue.
C10_FifoTieBreak ==
    [][\A w \in Workers :
          (swpc[w] = "idle" /\ swpc'[w] = "popped") =>
              \A a \in DOMAIN scraping_queue :
                  (a # swjob'[w] /\ scraping_queue[a] = scraping_queue[swjob'[w]])
                      => SubmitPos(swjob'[w]) < SubmitPos(a)]_vars

\* ---- C13 ----------------------------------------------------------------
\* C13: once a job's stored status is CANCELLED, no step of a process_job run
\* that is in progress for it changes the status or saves a Result for it.
C13_CancelledStaysCancelled ==
    [][\A w \in Workers :
          (swpc[w] = "running" /\ swpc'[w] # swpc[w]
               /\ db[swjob[w]].status = "CANCELLED") =>
              /\ db'[swjob[w]].status = "CANCELLED"
              /\ results'[swjob[w]] = results[swjob[w]]]_vars

C15_CancelRemovesFromQueue ==
    [][(cancel_log'.calls = cancel_log.calls + 1 /\ cancel_log'.reply = 204) =>
          /\ cancel_log'.job_id \notin DOMAIN scraping_queue'
          /\ cancel_log'.job_id \notin DOMAIN scraping_processing']_vars

\* ---- C16 ----------------------------------------------------------------
\* the transitions of the job lifecycle
LifecycleTransitions ==
    {<<"PENDING", "RUNNING">>, <<"RUNNING", "COMPLETED">>, <<"RUNNING", "FAILED">>,
     <<"PENDING", "CANCELLED">>, <<"RUNNING", "CANCELLED">>,
     <<"FAILED", "RETRYING">>, <<"RETRYING", "PENDING">>}

\* C16: every change of a job's stored status is one of the lifecycle
\* transitions; COMPLETED and CANCELLED are never left.
C16_LifecycleTransitions ==
    [][\A j \in Jobs :
          (db[j].exists /\ db'[j].status # db[j].status) =>
              <<db[j].status, db'[j].status>> \in LifecycleTransitions]_vars

\* ---- C17 ----------------------------------------------------------------
\* C17: a job's completed_at is set exactly when its stored status is
\* COMPLETED, FAILED or CANCELLED.
C17_CompletedAtIffTerminal ==
    \A j \in Jobs :
        db[j].exists => ((db[j].completed_at # NoTime) <=> StoredTerminal(j))

\* ---- C18 ----------------------------------------------------------------
\* C18: a job with retry_count < max_retries whose scrape failed is not left
\* FAILED by process_job; it goes back to scraping_queue with retry_count
\* incremented.
C18_TransientFailureRetried ==
    [][\A w \in Workers :
          LET j == swjob[w]
          IN (swpc[w] = "running" /\ swpc'[w] = "idle" /\ db'[j].status = "FAILED"
                  /\ db[j].retry_count < db[j].max_retries) =>
                 /\ db'[j].retry_count = db[j].retry_count + 1
                 /\ j \in DOMAIN scraping_queue']_vars

\* ---- C20 ----------------------------------------------------------------
\* the multipliers a backoff may be configured with
BackoffMultipliers == 1..3

\* C20: _schedule_retry schedules the n-th retry of a job (n = retry_count
\* after the increment) into retry_queue with a delay of
\* min(backoff_base * multiplier^(n-1), backoff_max), so never above backoff_max.
C20_BackoffGrowth ==
    [][\A j \in Jobs :
          (db'[j].retry_count = db[j].retry_count + 1 /\ db'[j].status = "RETRYING") =>
              /\ j \in DOMAIN retry_queue'
              /\ \E m \in BackoffMultipliers :
                     retry_queue'[j] - now =
                         Min(settings.backoff_base * Pow(m, db'[j].retry_count - 1),
                             settings.backoff_max)]_vars

\* ---- C27 ----------------------------------------------------------------
\* C27: after complete_job(J, success=True) returned True, J is not in
\* processing_jobs and the stored status of J is COMPLETED.
C27_SuccessCompletes ==
    \A w \in Workers :
        wpc[w] = "holding" =>
            LET j == wjob[w]
                c == complete_job(QState, j, TRUE, now)
            IN complete_job_returns(QState, j, TRUE, "none") =>
                   /\ j \notin c.processing_jobs
                   /\ c.db[j].status = "COMPLETED"

\* ---- C22 ----------------------------------------------------------------
\* C22: a job that a worker has popped from scraping_queue and has not
\* finished processing is in scraping_queue:processing, in every reachable
\* state.
C22_AtomicClaim ==
    \A w \in Workers :
        swpc[w] \in {"popped", "got", "running"} =>
            swjob[w] \in DOMAIN scraping_processing

\* ---- C30 ----------------------------------------------------------------
\* C30: Job.can_retry is true exactly when status is FAILED and
\* retry_count < max_retries; false for every other status and whenever
\* retry_count >= max_retries.
C30_CanRetryExact ==
    [][(crud_reply'.calls = crud_reply.calls + 1 /\ crud_reply'.op = "can_retry") =>
           LET row == db[crud_reply'.arg]
           IN /\ crud_reply'.flag <=>
                     (row.status = "FAILED" /\ row.retry_count < row.max_retries)
              /\ row.status # "FAILED" => ~crud_reply'.flag
              /\ row.retry_count >= row.max_retries => ~crud_reply'.flag]_vars

\* can_retry has answered True for a FAILED row with retries left
C30_Witness ==
    /\ crud_reply.op = "can_retry"
    /\ crud_reply.flag
    /\ db[crud_reply.arg].status = "FAILED"
    /\ db[crud_reply.arg].retry_count < db[crud_reply.arg].max_retries

\* ---- C28 ----------------------------------------------------------------
\* C28: JobCRUD.increment_retry_count on a job with retry_count = max_retries
\* changes nothing and returns the job; on a job with retry_count <
\* max_retries it raises retry_count by exactly 1, sets status PENDING and
\* clears error_message, started_at and completed_at.
C28_IncrementSafetyNet ==
    [][(crud_reply'.calls = crud_reply.calls + 1 /\ crud_reply'.op = "increment_retry_count"
        /\ db[crud_reply'.arg].exists) =>
           LET j == crud_reply'.arg
           IN /\ crud_reply'.flag
              /\ db[j].retry_count = db[j].max_retries => db' = db
              /\ db[j].retry_count < db[j].max_retries =>
                     db' = [db EXCEPT ![j].retry_count = @ + 1, ![j].status = "PENDING",
                                      ![j].error_message = NoMessage,
                                      ![j].started_at = NoTime,
                                      ![j].completed_at = NoTime]]_vars

C21_NotRunEarly ==
    \A w \in Workers :
        swpc[w] \in {"got", "running"} =>
            \/ db[swjob[w]].scheduled_at = NoTime
            \/ db[swjob[w]].scheduled_at <= now

\* ---- C23 ----------------------------------------------------------------
\* C23: process_job records a cached result for job J only when the cache
\* entry it read was stored by a scrape with the url, the selector and the
\* options of J.
C23_CacheHitSameFingerprint ==
    [][\A w \in Workers :
          (/\ swpc[w] = "running"
           /\ swpc'[w] = "idle"
           /\ results'[swjob[w]] = results[swjob[w]] + 1
           /\ url_cache' = url_cache) =>
              LET job == db[swjob[w]]
                  entry == url_cache[job.url]
              IN /\ entry.hit
                 /\ entry.selector = job.selector
                 /\ entry.options = job.options]_vars

\* ---- C29 ----------------------------------------------------------------
\* C29: get_pending_jobs(limit) returns only jobs with status PENDING and
\* scheduled_at null or <= now, at most limit of them, ordered by priority
\* descending and by created_at ascending within a priority; a job it
\* leaves out is left out only because the limit was reached, and never
\* precedes a returned job in that order.
C29_PendingJobsOrdered ==
    [][(crud_reply'.calls = crud_reply.calls + 1 /\ crud_reply'.op = "get_pending_jobs") =>
           LET r == crud_reply'.rows
               limit == crud_reply'.arg
               returned == {r[i] : i \in 1..Len(r)}
               eligible(j) == /\ db[j].exists
                              /\ db[j].status = "PENDING"
                              /\ (db[j].scheduled_at = NoTime \/ db[j].scheduled_at <= now)
               precedes(a, b) == \/ db[a].priority > db[b].priority
                                 \/ /\ db[a].priority = db[b].priority
                                    /\ db[a].created_at < db[b].created_at
           IN /\ Len(r) <= limit
              /\ Cardinality(returned) = Len(r)
              /\ \A j \in returned : eligible(j)
              /\ \A i, k \in 1..Len(r) : i < k => ~precedes(r[k], r[i])
              /\ \A j \in Jobs \ returned :
                     eligible(j) => /\ Len(r) = limit
                                    /\ \A x \in returned : ~precedes(j, x)]_vars

\* get_pending_jobs(1) returned the job of higher priority and left out a
\* pending job that is older and of lower priority
C29_Witness ==
    /\ crud_reply.op = "get_pending_jobs"
    /\ crud_reply.arg = 1
    /\ Len(crud_reply.rows) = 1
    /\ \E j \in Jobs \ {crud_reply.rows[1]} :
          /\ db[j].status = "PENDING"
          /\ db[j].scheduled_at = NoTime
          /\ db[j].priority < db[crud_reply.rows[1]].priority
          /\ db[j].created_at < db[crud_reply.rows[1]].created_at

\* ---- C24 ----------------------------------------------------------------
\* C24: after store_scrape_result(url, result, selector, options), a
\* get_scrape_result(url, selector, options) made before the entry expires
\* returns exactly the stored result.
C24_CacheRoundTrip ==
    [][(/\ cache_reply'.calls = cache_reply.calls + 1
        /\ store_log.calls > 0
        /\ cache_reply'.url = store_log.url
        /\ cache_reply'.selector = store_log.selector
        /\ cache_reply'.options = store_log.options
        /\ now < store_log.at + CACHE_TTL) =>
           /\ cache_reply'.hit
           /\ cache_reply'.value = store_log.result]_vars

\* ---- C25 ----------------------------------------------------------------
\* C25: an entry stored with custom_ttl = t is returned by lookups made less
\* than t seconds later and is a miss for every lookup made t or more
\* seconds later.
C25_CustomTtlExpiry ==
    [][(/\ cache_reply'.calls = cache_reply.calls + 1
        /\ store_log.calls > 0
        /\ store_log.custom_ttl # NoTtl
        /\ cache_reply'.url = store_log.url
        /\ cache_reply'.selector = store_log.selector
        /\ cache_reply'.options = store_log.options) =>
           (cache_reply'.hit <=> now - store_log.at < store_log.custom_ttl)]_vars

\* ---- rate limiting (core/cache.py, api/dependencies.py) -------------------
\* api_key.rate_limit_per_minute and api_key.rate_limit_per_hour of the client
MinuteLimit == 1
HourLimit == 2

\* the window_seconds check_rate_limit passes for the two identifiers
MinuteWindow == 60
HourWindow == 3600

\* now.strftime('%Y-%m-%d-%H-%M'): the calendar minute of time t
minute_of(t) == t \div 60

\* the "rate_limit:*" keys whose EXPIRE time has not run out at time t
LiveKeys(keys, t) ==
    [k \in {x \in DOMAIN keys : t < keys[x].expire_at} |-> keys[k]]

\* rate_limit_check(identifier, limit, window_seconds) at time t: INCR of the
\* key of the calendar minute, EXPIRE on the first increment, allowed when
\* the count is within the limit; allowed without counting on a Redis error
rate_limit_check(rl, identifier, limit, window_seconds, t, redisOk) ==
    LET live == LiveKeys(rl.keys, t)
        minute_key == <<identifier, minute_of(t)>>
        current_count == IF minute_key \in DOMAIN live
                         THEN live[minute_key].count + 1 ELSE 1
        expire_at == IF current_count = 1 THEN t + window_seconds
                     ELSE live[minute_key].expire_at
        allowed == IF redisOk THEN current_count <= limit ELSE TRUE
        entry == [at |-> t, allowed |-> allowed, error |-> ~redisOk]
    IN [keys |-> IF redisOk
                 THEN [k \in DOMAIN live \cup {minute_key} |->
                          IF k = minute_key
                          THEN [count |-> current_count, expire_at |-> expire_at]
                          ELSE live[k]]
                 ELSE live,
        log |-> [rl.log EXCEPT ![identifier] = Append(@, entry)],
        calls |-> rl.calls]

\* what the last rate_limit_check for the identifier returned as "allowed"
LastAllowed(rl, identifier) == rl.log[identifier][Len(rl.log[identifier])].allowed

\* check_rate_limit for one request: the per-minute check, and, unless that
\* one raised 429, the per-hour check
CheckRateLimit(minuteOk, hourOk) ==
    /\ rate_limit.calls < MaxRateCalls
    /\ LET minute_result == rate_limit_check(rate_limit, "minute", MinuteLimit,
                                             MinuteWindow, now, minuteOk)
           hour_result == rate_limit_check(minute_result, "hour", HourLimit,
                                           HourWindow, now, hourOk)
       IN rate_limit' = [(IF LastAllowed(minute_result, "minute")
                          THEN hour_result ELSE minute_result)
                            EXCEPT !.calls = rate_limit.calls + 1]
    /\ UNCHANGED <<db, crud_reply, scrape_cache, store_log, cache_reply>>
    /\ UNCHANGED <<redispatches, promoter, promoted>>
    /\ UNCHANGED rqVars
    /\ UNCHANGED jqVars

\* the API is up, one second before a calendar minute ends
InitLimiter ==
    /\ InitClock(59)
    /\ InitJobQueueKeys
    /\ InitWorkers
    /\ scraping_queue = EmptyZSet
    /\ db = [j \in Jobs |-> NoRow]

NextLimiter ==
    \/ Tick
    \/ \E minuteOk \in BOOLEAN, hourOk \in BOOLEAN : CheckRateLimit(minuteOk, hourOk)

\* requests of one client passing through check_rate_limit as time passes
SpecRateLimit == InitLimiter /\ [][NextLimiter]_vars

\* ---- re-dispatch (core/redis.py) ------------------------------------------
\* RedisQueue.retry_job(job_id, priority=job.priority) for a job that is in
\* progress: ZREM scraping_queue:processing, ZADD scraping_queue
RetryJob(j) ==
    /\ redispatches < MaxRedispatches
    /\ db[j].exists
    /\ j \in DOMAIN scraping_processing
    /\ scraping_processing' = ZRem(scraping_processing, j)
    /\ scraping_queue' = ZAdd(scraping_queue, j, db[j].priority)
    /\ redispatches' = redispatches + 1
    /\ UNCHANGED <<db, results, swpc, swjob, submitted, cancel_log>>
    /\ UNCHANGED url_cache
    /\ UNCHANGED jqVars
    /\ UNCHANGED <<crud_reply, scrape_cache, store_log, cache_reply, rate_limit,
                   promoter, promoted>>

NextRedispatch ==
    \/ \E j \in Jobs, p \in PriorityChoices : SubmitScrapeJob(j, p, TRUE)
    \/ WorkerSteps
    \/ \E j \in Jobs : RetryJob(j)

\* submitted jobs, the ScraperWorker when no call fails, and jobs in progress
\* put back on scraping_queue
SpecRedispatch == InitDeployed /\ [][NextRedispatch]_vars

\* ---- JobQueue.process_retry_queue, command by command ---------------------
\* the members of S in sorted-set order
RECURSIVE ZRangeList(_, _)
ZRangeList(z, S) ==
    IF S = {} THEN <<>>
    ELSE LET m == CHOOSE x \in S : \A y \in S \ {x} : ZBefore(z, x, y)
         IN <<m>> \o ZRangeList(z, S \ {m})

\* process_retry_queue, lines 227-239: current_time is taken and the due
\* entries are read with ZRANGEBYSCORE; with none the call returns 0
RetryRead(p) ==
    /\ promoter[p].pc = "idle"
    /\ promoted.calls < MaxPromotions
    /\ LET retry_jobs == ZRangeList(retry_queue, ZRangeByScore(retry_queue, 0, now))
       IN promoter' = [promoter EXCEPT ![p] =
                          IF retry_jobs = <<>> THEN IdlePromoter
                          ELSE [pc |-> "moving", retry_jobs |-> retry_jobs,
                                current_time |-> now, moved_count |-> 0]]
    /\ promoted' = [promoted EXCEPT !.calls = @ + 1]
    /\ UNCHANGED <<db, crud_reply, scrape_cache, store_log, cache_reply, rate_limit,
                   redispatches>>
    /\ UNCHANGED rqVars
    /\ UNCHANGED jqVars

\* process_retry_queue, lines 241-254, for the next id read: the pipeline
\* ZREM retry_queue, ZADD job_queue {id: current_time} is executed whole; the
\* status is set and the id counted when the ZREM replied 1.  After the last
\* id the call returns moved_count (line 259).
RetryMove(p) ==
    /\ promoter[p].pc = "moving"
    /\ LET job_id == Head(promoter[p].retry_jobs)
           rest == Tail(promoter[p].retry_jobs)
           reply == ZRemReply(retry_queue, job_id)
           moved_count == promoter[p].moved_count + reply
       IN /\ retry_queue' = ZRem(retry_queue, job_id)
          /\ job_queue' = ZAdd(job_queue, job_id, promoter[p].current_time)
          /\ job_status' = IF reply = 1 THEN [job_status EXCEPT ![job_id] = "queued"]
                           ELSE job_status
          /\ promoter' = [promoter EXCEPT ![p] =
                             IF rest = <<>> THEN IdlePromoter
                             ELSE [@ EXCEPT !.retry_jobs = rest,
                                            !.moved_count = moved_count]]
          /\ promoted' = [promoted EXCEPT
                             !.removed = @ + reply,
                             !.returned = IF rest = <<>> THEN @ + moved_count ELSE @]
    /\ UNCHANGED <<settings, now, ticks, db, processing_jobs, processing_key,
                   dead_letter_queue, wpc, wjob, dispatched, enqueues, admitted,
                   failures, reclaims>>
    /\ UNCHANGED <<crud_reply, scrape_cache, store_log, cache_reply, rate_limit,
                   redispatches>>
    /\ UNCHANGED rqVars

\* the readiness times of the entries found in retry_queue
RetryTimes == {1, 1001}

\* JobQueue with jobs waiting in retry_queue: their rows are RETRYING after
\* one failed attempt
InitRetry ==
    /\ InitClock(1)
    /\ settings = Settings
    /\ job_queue = EmptyZSet
    /\ processing_jobs = {}
    /\ processing_key = EmptyZSet
    /\ dead_letter_queue = <<>>
    /\ wpc = [w \in Workers |-> "idle"]
    /\ wjob = [w \in Workers |-> NoJob]
    /\ dispatched = [j \in Jobs |-> 0]
    /\ enqueues = 0
    /\ admitted = [j \in Jobs |-> -1]
    /\ failures = [j \in Jobs |-> 0]
    /\ reclaims = [j \in Jobs |-> 0]
    /\ InitWorkers
    /\ scraping_queue = EmptyZSet
    /\ \E S \in (SUBSET Jobs) \ {{}} :
          /\ retry_queue \in [S -> RetryTimes]
          /\ job_status = [j \in Jobs |-> IF j \in S THEN "retrying" ELSE "none"]
          /\ \E mr \in 1..MaxRetriesBound :
                db = [j \in Jobs |->
                        IF j \in S
                        THEN [NewJob(DefaultUrl, NoSelector, NoOptions, 0, NoTime, mr, now)
                                 EXCEPT !.status = "RETRYING", !.retry_count = 1]
                        ELSE NewJob(DefaultUrl, NoSelector, NoOptions, 0, NoTime, mr, now)]

NextRetry ==
    \/ Tick
    \/ \E p \in Promoters : RetryRead(p)
    \/ \E p \in Promoters : RetryMove(p)
    \/ \E w \in Workers : DequeueRead(w)
    \/ \E w \in Workers : DequeuePipeline(w)
    \/ \E w \in Workers, s \in BOOLEAN : CompleteJob(w, s)

\* process_retry_queue calls running beside each other and beside the workers
SpecRetry == InitRetry /\ [][NextRetry]_vars

\* ---- C32 ----------------------------------------------------------------
\* C32: every member of processing_jobs was returned to a worker by
\* dequeue_job and has not since been completed or reclaimed; a dequeue_job
\* that returns None adds nothing to processing_jobs.
C32_InFlightHasOwner ==
    \A j \in processing_jobs : dispatched[j] > 0

\* ---- C33 ----------------------------------------------------------------
\* is sequence s the tail end of sequence t
IsSuffix(s, t) ==
    /\ Len(s) <= Len(t)
    /\ \A i \in 1..Len(s) : s[i] = t[Len(t) - Len(s) + i]

\* C33: a job id that is on dead_letter_queue is not a member of job_queue,
\* processing_jobs or retry_queue, and no step removes an entry from
\* dead_letter_queue (LPUSH adds at the head).
C33_DeadLetterFinal ==
    [][/\ IsSuffix(dead_letter_queue, dead_letter_queue')
       /\ \A i \in 1..Len(dead_letter_queue') :
              /\ dead_letter_queue'[i] \notin DOMAIN job_queue'
              /\ dead_letter_queue'[i] \notin processing_jobs'
              /\ dead_letter_queue'[i] \notin DOMAIN retry_queue']_vars

\* ---- C34 ----------------------------------------------------------------
\* seconds before and after t + d at which readiness is looked at
ProbeOffsets == {-1, 0, 1, 999, 1000}

\* C34: a job admitted by enqueue_job(J, priority=p, delay_seconds=d) at time
\* t is not among the jobs dequeue_job selects before t + d and is among them
\* at every time from t + d on, for every priority p.
C34_ReadyAfterDelay ==
    [][\A j \in Jobs, p \in PriorityChoices, d \in DelayChoices :
          (admitted[j] = -1 /\ EnqueueJob(j, p, d)) =>
              \A o \in ProbeOffsets :
                  (j \in ZRangeByScore(job_queue', 0, now + d + o)) <=> (o >= 0)]_vars

\* ---- C36 ----------------------------------------------------------------
RateLimitOf(identifier) == IF identifier = "minute" THEN MinuteLimit ELSE HourLimit
RateWindowOf(identifier) == IF identifier = "minute" THEN MinuteWindow ELSE HourWindow

\* C36: for each identifier, as long as no rate_limit_check for it met a
\* Redis error, the calls made within any interval of window_seconds seconds
\* (taken from each call on) that returned allowed=True number at most limit.
C36_RateLimitBound ==
    \A id \in RateIdentifiers :
        LET log == rate_limit.log[id]
        IN (\A k \in DOMAIN log : ~log[k].error) =>
               \A i \in DOMAIN log :
                   Cardinality({k \in DOMAIN log :
                                   /\ log[k].allowed
                                   /\ log[i].at <= log[k].at
                                   /\ log[k].at < log[i].at + RateWindowOf(id)})
                       <= RateLimitOf(id)

AlreadyDequeued(j) ==
    \/ j \in processing_jobs
    \/ job_status[j] \in {"processing", "completed", "failed"}

====
